---- MODULE Spec2Model ----
(***************************************************************************)
(* Model of src/main.ts: the OAuth 2.0 authorization-code flow over three  *)
(* in-memory maps, the bearer check in front of the protocol endpoint, the *)
(* JSON-RPC dispatcher and its two transports (one JSON document, or a     *)
(* newline-delimited stream).                                              *)
(*                                                                         *)
(* A JavaScript Map is a function whose DOMAIN is its key set.  A value    *)
(* that may be undefined is a sequence of length 0 or 1.  Text is a        *)
(* sequence of symbols.  Every handler of Deno.serve runs to completion    *)
(* after its single await on the request body, so a handler is one action. *)
(***************************************************************************)
EXTENDS Integers, Sequences, FiniteSets, TLC

VARIABLES
    clients,             \* main.ts:22  Map client_id -> Client
    authorizationCodes,  \* main.ts:23  Map code -> {client_id, redirect_uri, expires_at}
    accessTokens,        \* main.ts:24  Map token -> {client_id, expires_at}
    now,                 \* Date.now()
    last,                \* the last request served and its response
    stream,              \* the TransformStream of the last request, if it streams
    redeemed,            \* history: the code strings whose latest stored code has minted a token
    issued,              \* history: number of authorization codes stored so far
    ticks,               \* history: number of clock advances
    inflight             \* the token requests received, each with its status once answered

vars == <<clients, authorizationCodes, accessTokens, now, last, stream,
          redeemed, issued, ticks, inflight>>

(***************************************************************************)
(* Bounds of the model.                                                    *)
(***************************************************************************)
MaxAuthorize == 2
MaxTicks == 1

(***************************************************************************)
(* Program constants.                                                      *)
(***************************************************************************)
CodeLifetime == 600000
TokenLifetime == 3600000
ClientIdLength == 32
ClientSecretLength == 48
CodeLength == 32
TokenLength == 64

Null == "null"

\* main.ts:241-248.  The strings generateRandomString(length) can return.
\* Math.random gives no uniqueness: a later call may return an earlier result.
generateRandomString(length) ==
    IF length = 32 THEN {"r32a", "r32b"}
    ELSE IF length = 48 THEN {"r48a", "r48b"}
    ELSE {"r64a", "r64b"}

\* Map.prototype.set
MapSet(map, key, value) ==
    [k \in DOMAIN map \cup {key} |-> IF k = key THEN value ELSE map[k]]

\* Map.prototype.delete
MapDelete(map, key) ==
    [k \in DOMAIN map \ {key} |-> map[k]]

\* Map.prototype.get as a sequence: <<>> is undefined
MapGet(map, key) ==
    IF key \in DOMAIN map THEN <<map[key]>> ELSE <<>>

NoStream == [open |-> FALSE, chunks |-> <<>>, out |-> <<>>, lines |-> <<>>]

\* A response of an OAuth endpoint
OAuthResponse(ep, req, status, error, body) ==
    [ep |-> ep, req |-> req, status |-> status, error |-> error, body |-> body,
     reached |-> FALSE, dispatched |-> <<>>]

Init ==
    /\ clients = << >>
    /\ authorizationCodes = << >>
    /\ accessTokens = << >>
    /\ now = 0
    /\ last = OAuthResponse("none", <<>>, 0, "none", <<>>)
    /\ stream = NoStream
    /\ redeemed = {}
    /\ issued = 0
    /\ ticks = 0
    /\ inflight = <<>>

(***************************************************************************)
(* The clock.  Date.now() only moves forward.  A step is one millisecond   *)
(* more than a token lifetime: every code and every token stored before    *)
(* the step is past its expires_at after it.                               *)
(***************************************************************************)
TickSteps == {TokenLifetime + 1}

Tick(d) ==
    /\ ticks < MaxTicks
    /\ now' = now + d
    /\ ticks' = ticks + 1
    /\ UNCHANGED <<clients, authorizationCodes, accessTokens, last, stream,
                   redeemed, issued, inflight>>

(***************************************************************************)
(* POST /oauth/register  (main.ts:279-296)                                 *)
(***************************************************************************)
\* body.redirect_uris || []
RedirectUrisOf(body) ==
    IF body.redirect_uris = <<>> THEN <<>> ELSE body.redirect_uris[1]

\* Request bodies: not JSON at all, and an object with redirect_uris
\* (one without them registers the empty list).
NotJson == [json |-> FALSE, redirect_uris |-> <<>>]
RegisterBodies ==
    { NotJson, [json |-> TRUE,  redirect_uris |-> << <<"http://cb">> >>] }

Register(body) ==
    IF ~body.json
    THEN \* req.json() throws before anything is stored: Deno answers 500
         /\ last' = OAuthResponse("register", body, 500, "exception", <<>>)
         /\ UNCHANGED <<clients, authorizationCodes, accessTokens, now, stream,
                        redeemed, issued, ticks, inflight>>
    ELSE \E clientId \in generateRandomString(ClientIdLength),
            clientSecret \in generateRandomString(ClientSecretLength) :
         LET client == [client_id |-> clientId,
                        client_secret |-> clientSecret,
                        redirect_uris |-> RedirectUrisOf(body)]
         IN /\ clients' = MapSet(clients, clientId, client)
            /\ last' = OAuthResponse("register", body, 200, "none", <<client>>)
            /\ UNCHANGED <<authorizationCodes, accessTokens, now, stream,
                           redeemed, issued, ticks, inflight>>

(***************************************************************************)
(* GET /oauth/authorize  (main.ts:298-324)                                 *)
(***************************************************************************)
\* Whether new URL(redirectUri) succeeds.  A missing parameter is null, and
\* new URL(null) throws.
UrlParses(redirectUri) == redirectUri = "http://cb"

AuthorizeClientIds == generateRandomString(ClientIdLength) \cup {Null}
AuthorizeRedirectUris == {"http://cb"}
AuthorizeStates == {"xyz"}

\* The check with the lookup in the client store left out
InvalidClientMissingOnly(clientId) ==
    clientId = Null \/ clientId = ""

\* main.ts:304
InvalidClient(clientId) ==
    clientId = Null \/ clientId = "" \/ clientId \notin DOMAIN clients

Authorize(clientId, redirectUri, state) ==
    LET req == [client_id |-> clientId, redirect_uri |-> redirectUri, state |-> state]
    IN IF InvalidClient(clientId)
       THEN /\ last' = OAuthResponse("authorize", req, 400, "Invalid client", <<>>)
            /\ UNCHANGED <<clients, authorizationCodes, accessTokens, now, stream,
                           redeemed, issued, ticks, inflight>>
       ELSE /\ issued < MaxAuthorize
            /\ \E code \in generateRandomString(CodeLength) :
                 /\ authorizationCodes' =
                       MapSet(authorizationCodes, code,
                              [client_id |-> clientId,
                               redirect_uri |-> redirectUri,
                               expires_at |-> now + CodeLifetime])
                 /\ redeemed' = redeemed \ {code}
                 /\ issued' = issued + 1
                 /\ last' =
                       IF UrlParses(redirectUri)
                       THEN OAuthResponse("authorize", req, 302, "none",
                              <<[location |-> redirectUri, code |-> code,
                                 state |-> IF state = Null \/ state = ""
                                           THEN <<>> ELSE <<state>>]>>)
                       ELSE \* new URL(redirectUri!) throws after the code is stored
                            OAuthResponse("authorize", req, 500, "exception", <<>>)
            /\ UNCHANGED <<clients, accessTokens, now, stream, ticks, inflight>>

(***************************************************************************)
(* POST /oauth/token  (main.ts:326-369)                                    *)
(***************************************************************************)
TokenCodes == generateRandomString(CodeLength)
TokenClientIds == generateRandomString(ClientIdLength)
TokenClientSecrets == generateRandomString(ClientSecretLength)

\* The form fields of a token request: grant_type authorization_code with
\* every code, client_id and client_secret, and another grant type with
\* every code (main.ts:334 answers it before it reads the other fields).
TokenForms ==
    [grant_type : {"authorization_code"}, code : TokenCodes,
     client_id : TokenClientIds, client_secret : TokenClientSecrets]
    \cup [grant_type : {"refresh_token"}, code : TokenCodes,
          client_id : {"r32a"}, client_secret : {"r48a"}]

\* TokenError without the comparison of the client secret
TokenErrorSecretUnchecked(grantType, code, clientId, clientSecret) ==
    IF grantType # "authorization_code"
    THEN "unsupported_grant_type"
    ELSE IF \/ code \notin DOMAIN authorizationCodes
            \/ authorizationCodes[code].client_id # clientId
    THEN "invalid_grant"
    ELSE IF clientId \notin DOMAIN clients
    THEN "invalid_client"
    ELSE "none"

\* TokenError with the client checked before the code
TokenErrorClientFirst(grantType, code, clientId, clientSecret) ==
    IF grantType # "authorization_code"
    THEN "unsupported_grant_type"
    ELSE IF \/ clientId \notin DOMAIN clients
            \/ clients[clientId].client_secret # clientSecret
    THEN "invalid_client"
    ELSE IF \/ code \notin DOMAIN authorizationCodes
            \/ authorizationCodes[code].client_id # clientId
    THEN "invalid_grant"
    ELSE "none"

\* TokenError without the lookup of the code
TokenErrorCodeUnchecked(grantType, code, clientId, clientSecret) ==
    IF grantType # "authorization_code"
    THEN "unsupported_grant_type"
    ELSE IF \/ clientId \notin DOMAIN clients
            \/ clients[clientId].client_secret # clientSecret
    THEN "invalid_client"
    ELSE "none"

\* The three checks of main.ts:334-352, in the order the handler makes
\* them; "none" when all pass.  The code's expires_at is not read.
TokenError(grantType, code, clientId, clientSecret) ==
    IF grantType # "authorization_code"
    THEN "unsupported_grant_type"
    ELSE IF \/ code \notin DOMAIN authorizationCodes
            \/ authorizationCodes[code].client_id # clientId
    THEN "invalid_grant"
    ELSE IF \/ clientId \notin DOMAIN clients
            \/ clients[clientId].client_secret # clientSecret
    THEN "invalid_client"
    ELSE "none"

\* The HTTP status of a token-endpoint error (main.ts:337, 344, 351)
TokenErrorStatus(error) ==
    IF error = "invalid_client" THEN 401 ELSE 400

\* The exchange without the delete
CodesKept(code) == authorizationCodes

\* main.ts:362  authorizationCodes.delete(code)
CodesAfterExchange(code) == MapDelete(authorizationCodes, code)

\* What the handler saw when it looked the request up: for the history only
TokenLookup(code, clientId) ==
    [codeData |-> MapGet(authorizationCodes, code),
     client |-> MapGet(clients, clientId),
     at |-> now,
     spent |-> code \in redeemed]

TokenResponse(req, status, error, body, seen) ==
    [ep |-> "token", req |-> req, status |-> status, error |-> error, body |-> body,
     reached |-> FALSE, dispatched |-> <<>>, seen |-> seen]

\* The handler once req.formData() has settled (main.ts:327): from there
\* to the return nothing is awaited, so the checks, the minting and the
\* delete are one turn of the event loop.
TokenTurn(form, grantType, code, clientId, clientSecret) ==
    LET req == [form |-> form, grant_type |-> grantType, code |-> code,
                client_id |-> clientId, client_secret |-> clientSecret]
        seen == TokenLookup(code, clientId)
        error == TokenError(grantType, code, clientId, clientSecret)
    IN IF ~form
       THEN \* req.formData() throws: Deno answers 500
            /\ last' = TokenResponse(req, 500, "exception", <<>>, seen)
            /\ UNCHANGED <<clients, authorizationCodes, accessTokens, now, stream,
                           redeemed, issued, ticks>>
       ELSE IF error # "none"
       THEN /\ last' = TokenResponse(req, TokenErrorStatus(error), error, <<>>, seen)
            /\ UNCHANGED <<clients, authorizationCodes, accessTokens, now, stream,
                           redeemed, issued, ticks>>
       ELSE /\ \E accessToken \in generateRandomString(TokenLength) :
                 /\ accessTokens' =
                       MapSet(accessTokens, accessToken,
                              [client_id |-> clientId,
                               expires_at |-> now + TokenLifetime])
                 /\ authorizationCodes' = CodesAfterExchange(code)
                 /\ redeemed' = redeemed \cup {code}
                 /\ last' = TokenResponse(req, 200, "none",
                       <<[access_token |-> accessToken, token_type |-> "Bearer",
                          expires_in |-> 3600]>>, seen)
            /\ UNCHANGED <<clients, now, stream, issued, ticks>>

\* A token request served from arrival to response
Token(form, grantType, code, clientId, clientSecret) ==
    /\ TokenTurn(form, grantType, code, clientId, clientSecret)
    /\ UNCHANGED inflight

(***************************************************************************)
(* BearerGate  (main.ts:374-382)                                           *)
(***************************************************************************)
\* An Authorization header: absent, a bearer token, or another scheme.
\* Headers.get strips the value, so "Bearer " with no token reads "Bearer"
\* and is another scheme.
NoHeader == [scheme |-> "none", token |-> ""]
Bearer(token) == [scheme |-> "Bearer", token |-> token]
BasicHeader == [scheme |-> "Basic", token |-> "dXNlcg"]

\* authHeader && authHeader.startsWith("Bearer ")
IsBearer(authHeader) == authHeader.scheme = "Bearer"

\* BearerGate that lets a token through when the store has no record of it
BearerGateUnknownAdmitted(authHeader) ==
    IF IsBearer(authHeader) /\ authHeader.token \in DOMAIN accessTokens
    THEN ~ (accessTokens[authHeader.token].expires_at < now)
    ELSE TRUE

\* BearerGate that does not read expires_at
BearerGateExpiryUnchecked(authHeader) ==
    IF IsBearer(authHeader)
    THEN authHeader.token \in DOMAIN accessTokens
    ELSE TRUE

\* TRUE when the request goes on to the transport, FALSE when it is
\* answered 401.
BearerGate(authHeader) ==
    IF IsBearer(authHeader)
    THEN ~ (\/ authHeader.token \notin DOMAIN accessTokens
            \/ accessTokens[authHeader.token].expires_at < now)
    ELSE TRUE

(***************************************************************************)
(* JSON values and their text.                                             *)
(*                                                                         *)
(* A decoded message is a record: type "object" with the fields the        *)
(* dispatcher reads (id, method, params; "undefined" when the key is       *)
(* missing), type "null" for the JSON value null, type "number" for a      *)
(* primitive.  A document is one message or an array of messages.          *)
(***************************************************************************)
NoId == "undefined"
NoMethod == "undefined"
NoParams == "undefined"

Message(id, method, params) ==
    [type |-> "object", id |-> id, method |-> method, params |-> params]
NullValue == [type |-> "null", id |-> NoId, method |-> NoMethod, params |-> NoParams]
NumberValue == [type |-> "number", id |-> NoId, method |-> NoMethod, params |-> NoParams]

Single(message) == [isArray |-> FALSE, items |-> <<message>>]
Batch(messages) == [isArray |-> TRUE, items |-> messages]

\* Text is a sequence of symbols.  The text of a message is two symbols,
\* its first and its second half, so that a chunk boundary can fall
\* inside it; the other symbols are newline, space, the array punctuation
\* and a byte that belongs to no JSON text.
Sym(kind) == [sym |-> kind, msg |-> NullValue]
NL == Sym("\n")
SP == Sym(" ")
Garbage == Sym("x")
MessageText(message) ==
    <<[sym |-> "head", msg |-> message], [sym |-> "tail", msg |-> message]>>

RECURSIVE ItemsText(_)
ItemsText(messages) ==
    IF messages = <<>> THEN <<>>
    ELSE IF Len(messages) = 1 THEN MessageText(messages[1])
    ELSE MessageText(messages[1]) \o <<Sym(",")>> \o ItemsText(Tail(messages))

\* The text a client sends for a document
DocText(doc) ==
    IF doc.isArray THEN <<Sym("[")>> \o ItemsText(doc.items) \o <<Sym("]")>>
    ELSE MessageText(doc.items[1])

IsSpace(symbol) == symbol.sym \in {"\n", " "}

\* JSON ignores white space between tokens
RECURSIVE Tokens(_)
Tokens(text) ==
    IF text = <<>> THEN <<>>
    ELSE IF IsSpace(Head(text)) THEN Tokens(Tail(text))
    ELSE <<Head(text)>> \o Tokens(Tail(text))

IsMessageAt(t, i) ==
    /\ i + 1 <= Len(t)
    /\ t[i].sym = "head"
    /\ t[i + 1].sym = "tail"
    /\ t[i].msg = t[i + 1].msg

\* The array elements between the brackets: message (, message)*
IsItems(t) ==
    /\ Len(t) % 3 = 2
    /\ \A k \in 0..((Len(t) - 2) \div 3) :
          /\ IsMessageAt(t, 3 * k + 1)
          /\ (k > 0 => t[3 * k].sym = ",")

\* JSON.parse: <<document>>, or <<>> for a SyntaxError
JSONParse(text) ==
    LET t == Tokens(text)
    IN IF Len(t) = 2 /\ IsMessageAt(t, 1)
       THEN <<Single(t[1].msg)>>
       ELSE IF Len(t) >= 2 /\ t[1].sym = "[" /\ t[Len(t)].sym = "]"
       THEN LET inner == SubSeq(t, 2, Len(t) - 1)
            IN IF inner = <<>> THEN <<Batch(<<>>)>>
               ELSE IF IsItems(inner)
               THEN <<Batch([k \in 1..((Len(inner) + 1) \div 3) |-> inner[3 * k - 2].msg])>>
               ELSE <<>>
       ELSE <<>>

(***************************************************************************)
(* handleToolCall and handleJsonRpc  (main.ts:54-167)                      *)
(***************************************************************************)
Result(id, payload) ==
    [id |-> id, kind |-> "result", code |-> 0, payload |-> payload]
Error(id, code, message) ==
    [id |-> id, kind |-> "error", code |-> code, payload |-> message]

\* The params of a tools/call message: the key is missing, the echo tool
\* with a message, the echo tool with no arguments, another tool.
ToolParams == {NoParams, "echo", "echo without arguments", "other tool"}

\* main.ts:54-67 with the property reads of main.ts:105-108: the result,
\* or the message of what was thrown
handleToolCall(params) ==
    IF params = "echo" THEN [threw |-> FALSE, value |-> "Echo"]
    ELSE IF params = "other tool" THEN [threw |-> TRUE, value |-> "Unknown tool"]
    ELSE [threw |-> TRUE, value |-> "TypeError"]

\* One turn of the loop of main.ts:75-164: the response pushed (<<>> when
\* none is), or threw when the catch block itself throws (message is null:
\* reading message.method throws, and so does message.id in the catch).
DispatchOne(message) ==
    IF message.type = "null"
    THEN [threw |-> TRUE, response |-> <<>>]
    ELSE IF message.method = "initialize"
    THEN [threw |-> FALSE, response |-> <<Result(message.id, "initialize")>>]
    ELSE IF message.method = "tools/list"
    THEN [threw |-> FALSE, response |-> <<Result(message.id, "tools")>>]
    ELSE IF message.method = "tools/call"
    THEN LET call == handleToolCall(message.params)
         IN IF call.threw
            THEN [threw |-> FALSE, response |-> <<Error(message.id, -32603, call.value)>>]
            ELSE [threw |-> FALSE, response |-> <<Result(message.id, call.value)>>]
    ELSE IF message.method = "completions/list"
    THEN [threw |-> FALSE, response |-> <<Result(message.id, "completions")>>]
    ELSE IF message.id # NoId
    THEN [threw |-> FALSE, response |-> <<Error(message.id, -32601, "Method not found")>>]
    ELSE [threw |-> FALSE, response |-> <<>>]

RECURSIVE Responses(_)
Responses(requests) ==
    IF requests = <<>> THEN <<>>
    ELSE DispatchOne(Head(requests)).response \o Responses(Tail(requests))

\* handleJsonRpc(messages): what it returns, unless it throws.
\* value is <<>> for undefined (responses[0] of an empty list).
handleJsonRpc(doc) ==
    LET requests == doc.items
        responses == Responses(requests)
    IN [threw |-> \E i \in 1..Len(requests) : DispatchOne(requests[i]).threw,
        isArray |-> doc.isArray,
        value |-> IF doc.isArray THEN <<Batch(responses)>>
                  ELSE IF responses = <<>> THEN <<>>
                  ELSE <<Single(responses[1])>>]

(***************************************************************************)
(* handleStreamableHttp  (main.ts:170-238)                                 *)
(***************************************************************************)
\* Content-Type values, character by character: String.prototype.includes
\* searches for a substring.
ApplicationJson ==
    <<"a","p","p","l","i","c","a","t","i","o","n","/","j","s","o","n">>
ApplicationJsonl == ApplicationJson \o <<"l">>
ApplicationXNdjson ==
    <<"a","p","p","l","i","c","a","t","i","o","n","/","x","-","n","d","j","s","o","n">>
ApplicationJsonUtf8 ==
    ApplicationJson \o <<";"," ","c","h","a","r","s","e","t","=","u","t","f","-","8">>
TextPlain == <<"t","e","x","t","/","p","l","a","i","n">>
NoContentType == <<>>

\* String.prototype.includes
Includes(string, search) ==
    \E i \in 0..(Len(string) - Len(search)) :
        SubSeq(string, i + 1, i + Len(search)) = search

\* The branch handleStreamableHttp takes: main.ts:175, 190, 222
Transport(contentType) ==
    IF Includes(contentType, ApplicationJson) THEN "json"
    ELSE IF \/ Includes(contentType, ApplicationJsonl)
            \/ Includes(contentType, ApplicationXNdjson) THEN "stream"
    ELSE "unsupported"

RECURSIVE Concat(_)
Concat(chunks) ==
    IF chunks = <<>> THEN <<>> ELSE Head(chunks) \o Concat(Tail(chunks))

\* What BearerGate saw when it looked the token up: for the history only
GateLookup(authHeader) ==
    [tokenData |-> MapGet(accessTokens, authHeader.token), at |-> now]

McpResponse(req, status, error, body, path, reached, read, dispatched) ==
    [ep |-> "mcp", req |-> req, status |-> status, rpcError |-> error, body |-> body,
     path |-> path, reached |-> reached, read |-> read, dispatched |-> dispatched,
     seen |-> GateLookup(req.authHeader)]

\* The catch block of main.ts:223-237
ParseError(req, path, read, dispatched) ==
    McpResponse(req, 400, -32700, <<>>, path, TRUE, read, dispatched)

\* The response of handleStreamableHttp to a request that passed the gate.
\* A request without a body has no chunks.
handleStreamableHttp(req) ==
    LET path == Transport(req.contentType)
    IN IF path = "json"
       THEN LET body == JSONParse(Concat(req.chunks))
            IN IF body = <<>>
               THEN ParseError(req, path, TRUE, <<>>)
               ELSE LET response == handleJsonRpc(body[1])
                    IN IF response.threw
                       THEN ParseError(req, path, TRUE, body[1].items)
                       ELSE McpResponse(req, 200, 0, response.value, path,
                                        TRUE, TRUE, body[1].items)
       ELSE IF path = "stream"
       THEN IF req.chunks = <<>>
            THEN \* req.body is null: pipeThrough throws
                 ParseError(req, path, FALSE, <<>>)
            ELSE McpResponse(req, 200, 0, <<>>, path, TRUE, FALSE, <<>>)
       ELSE McpResponse(req, 400, 0, <<>>, path, TRUE, FALSE, <<>>)

(***************************************************************************)
(* The TransformStream of main.ts:194-210                                  *)
(***************************************************************************)
\* String.prototype.split("\n")
RECURSIVE Split(_)
Split(text) ==
    IF \A i \in 1..Len(text) : text[i] # NL
    THEN <<text>>
    ELSE LET i == CHOOSE j \in 1..Len(text) :
                      text[j] = NL /\ \A k \in 1..(j - 1) : text[k] # NL
         IN <<SubSeq(text, 1, i - 1)>> \o Split(SubSeq(text, i + 1, Len(text)))

\* line.trim() is not empty
NonBlank(line) == \E i \in 1..Len(line) : ~IsSpace(line[i])

\* decoder.decode(chunk).split("\n").filter(line => line.trim())
Lines(chunk) == SelectSeq(Split(chunk), NonBlank)

\* The body of the for loop, main.ts:199-207: what the line enqueues
\* (<<>> when nothing), and what became of the line
ProcessLine(line) ==
    LET message == JSONParse(line)
    IN IF message = <<>>
       THEN [line |-> line, parsed |-> FALSE, threw |-> FALSE,
             messages |-> <<>>, out |-> <<>>]
       ELSE LET response == handleJsonRpc(message[1])
            IN IF response.threw
               THEN [line |-> line, parsed |-> TRUE, threw |-> TRUE,
                     messages |-> message[1].items, out |-> <<>>]
               ELSE [line |-> line, parsed |-> TRUE, threw |-> FALSE,
                     messages |-> message[1].items, out |-> response.value]

RECURSIVE ProcessLines(_)
ProcessLines(lines) ==
    IF lines = <<>> THEN <<>>
    ELSE <<ProcessLine(Head(lines))>> \o ProcessLines(Tail(lines))

RECURSIVE Enqueued(_)
Enqueued(processed) ==
    IF processed = <<>> THEN <<>>
    ELSE Head(processed).out \o Enqueued(Tail(processed))

\* A line the loop has handled: what became of it, and how many responses
\* the controller had been given when the line was dispatched
Handled(processed, sent) ==
    [line |-> processed.line, parsed |-> processed.parsed, threw |-> processed.threw,
     messages |-> processed.messages, out |-> processed.out, sent |-> sent]

\* The loop dispatching every line of the chunk before it enqueues a response
TransformLoopHeld(lines, queue) ==
    [k \in 1..Len(lines) |-> Handled(ProcessLine(lines[k]), Len(queue))]

\* for (const line of lines), main.ts:198-208: each line is parsed,
\* dispatched and its response enqueued before the next line is taken.
\* queue is what the controller has been given so far.
RECURSIVE TransformLoop(_, _)
TransformLoop(lines, queue) ==
    IF lines = <<>> THEN <<>>
    ELSE LET processed == ProcessLine(Head(lines))
         IN <<Handled(processed, Len(queue))>>
            \o TransformLoop(Tail(lines), queue \o processed.out)

\* transform(chunk, controller) on the next chunk of the request body
Transform ==
    /\ stream.open
    /\ stream.chunks # <<>>
    /\ LET processed == TransformLoop(Lines(Head(stream.chunks)), stream.out)
       IN stream' = [stream EXCEPT !.chunks = Tail(stream.chunks),
                                   !.out = stream.out \o Enqueued(processed),
                                   !.lines = stream.lines \o processed]
    /\ UNCHANGED <<clients, authorizationCodes, accessTokens, now, last,
                   redeemed, issued, ticks, inflight>>

(***************************************************************************)
(* /mcp and /  (main.ts:372-403), and the fall-through of main.ts:405      *)
(***************************************************************************)
McpRequest(method, authHeader, contentType, chunks) ==
    LET req == [method |-> method, authHeader |-> authHeader,
                contentType |-> contentType, chunks |-> chunks]
        response ==
            IF ~BearerGate(authHeader)
            THEN McpResponse(req, 401, 0, <<>>, "none", FALSE, FALSE, <<>>)
            ELSE IF method = "POST" THEN handleStreamableHttp(req)
            ELSE McpResponse(req, 200, 0, <<>>, "none", FALSE, FALSE, <<>>)
    IN /\ last' = response
       /\ stream' = IF response.path = "stream" /\ response.status = 200
                    THEN [open |-> TRUE, chunks |-> chunks, out |-> <<>>, lines |-> <<>>]
                    ELSE NoStream
       /\ UNCHANGED <<clients, authorizationCodes, accessTokens, now,
                      redeemed, issued, ticks, inflight>>

(***************************************************************************)
(* The requests the model sends.                                           *)
(***************************************************************************)
MaxBatch == 3
MaxLines == 3
MaxCuts == 1

SeqsUpTo(S, n) == UNION {[1..k -> S] : k \in 0..n}

Ids == {NoId, "1", "2"}

Messages ==
    {Message(id, method, NoParams) :
        id \in Ids,
        method \in {"initialize", "tools/list", "completions/list", "unknown", NoMethod}}
    \cup {Message(id, "tools/call", params) : id \in Ids, params \in ToolParams}
    \cup {NullValue, NumberValue}

BatchItems ==
    {Message("1", "unknown", NoParams), Message(NoId, "notify-only", NoParams),
     Message("2", "tools/list", NoParams), Message(NoId, "initialize", NoParams),
     Message("2", "tools/call", "other tool"), NullValue}

JsonBodies ==
    {DocText(Single(m)) : m \in Messages}
    \cup {DocText(Batch(b)) : b \in SeqsUpTo(BatchItems, MaxBatch)}
    \cup {<<Garbage>>}

StreamLines ==
    {MessageText(Message("1", "unknown", NoParams)),
     MessageText(Message("2", "tools/list", NoParams)),
     MessageText(Message(NoId, "notify-only", NoParams)),
     MessageText(Message(NoId, "tools/list", NoParams)),
     MessageText(NullValue),
     <<Garbage>>,
     <<SP>>}

\* Newline-delimited text: every line ends in a newline
RECURSIVE JoinLines(_)
JoinLines(lines) ==
    IF lines = <<>> THEN <<>>
    ELSE Head(lines) \o <<NL>> \o JoinLines(Tail(lines))

StreamBodies == {JoinLines(lines) : lines \in SeqsUpTo(StreamLines, MaxLines)} \ {<<>>}

\* The body cut into chunks after the positions in cuts
RECURSIVE ChunksOf(_, _)
ChunksOf(text, cuts) ==
    IF cuts = {} THEN <<text>>
    ELSE LET c == CHOOSE x \in cuts : \A y \in cuts : x <= y
         IN <<SubSeq(text, 1, c)>>
            \o ChunksOf(SubSeq(text, c + 1, Len(text)), {y - c : y \in cuts \ {c}})

\* The sets of at most n of the positions
RECURSIVE CutsUpTo(_, _)
CutsUpTo(positions, n) ==
    IF n = 0 THEN {{}}
    ELSE LET fewer == CutsUpTo(positions, n - 1)
         IN fewer \cup {cuts \cup {p} : cuts \in fewer, p \in positions}

\* Where a body may be cut: after any symbol but the last, MaxCuts times
Cuts(text) == CutsUpTo(1..(Len(text) - 1), MaxCuts)

ContentTypes ==
    {ApplicationJson, ApplicationJsonl, ApplicationXNdjson, ApplicationJsonUtf8,
     TextPlain, NoContentType}

\* Bodies that arrive whole, and no body at all
WholeBodies == {<<body>> : body \in JsonBodies \cup StreamBodies} \cup {<<>>}

GateHeaders ==
    {NoHeader, BasicHeader} \cup {Bearer(t) : t \in generateRandomString(TokenLength)}

ToolsList == <<DocText(Single(Message("1", "tools/list", NoParams)))>>

(***************************************************************************)
(* The authorization flow with the gate of the protocol endpoint.          *)
(***************************************************************************)
Next ==
    \/ \E d \in TickSteps : Tick(d)
    \/ \E body \in RegisterBodies : Register(body)
    \/ \E clientId \in AuthorizeClientIds, redirectUri \in AuthorizeRedirectUris,
          state \in AuthorizeStates : Authorize(clientId, redirectUri, state)
    \/ \E f \in TokenForms :
          Token(TRUE, f.grant_type, f.code, f.client_id, f.client_secret)
    \/ Token(FALSE, Null, Null, Null, Null)
    \/ \E authHeader \in GateHeaders :
          McpRequest("POST", authHeader, ApplicationJson, ToolsList)

Spec == Init /\ [][Next]_vars

(***************************************************************************)
(* The protocol endpoint: dispatcher and transports.                       *)
(***************************************************************************)
\* A request that has arrived and is not yet served
Pending(req) ==
    [ep |-> "pending", req |-> req, status |-> 0, rpcError |-> 0, body |-> <<>>,
     path |-> "none", reached |-> FALSE, read |-> FALSE, dispatched |-> <<>>,
     seen |-> GateLookup(req.authHeader)]

\* The request arrives
Arrives(method, authHeader, contentType, chunks) ==
    last = Pending([method |-> method, authHeader |-> authHeader,
                    contentType |-> contentType, chunks |-> chunks])

\* No token is stored: a bearer request is refused whatever it carries.
\* A body is sent whole under every content type, and cut into chunks
\* under application/x-ndjson, the content type that streams.
InitMcp ==
    /\ clients = << >>
    /\ authorizationCodes = << >>
    /\ accessTokens = << >>
    /\ now = 0
    /\ \/ \E contentType \in ContentTypes, chunks \in WholeBodies :
             Arrives("POST", NoHeader, contentType, chunks)
       \/ \E body \in StreamBodies : \E cuts \in Cuts(body) :
             Arrives("POST", NoHeader, ApplicationXNdjson, ChunksOf(body, cuts))
       \/ Arrives("POST", Bearer("r64a"), ApplicationJson, ToolsList)
       \/ Arrives("GET", NoHeader, NoContentType, <<>>)
    /\ stream = NoStream
    /\ redeemed = {}
    /\ issued = 0
    /\ ticks = 0
    /\ inflight = <<>>

Serve ==
    /\ last.ep = "pending"
    /\ McpRequest(last.req.method, last.req.authHeader, last.req.contentType,
                  last.req.chunks)

NextMcp ==
    \/ Serve
    \/ Transform

SpecMcp == InitMcp /\ [][NextMcp]_vars

(***************************************************************************)
(* Token requests in flight together.  Deno.serve starts the handler of a  *)
(* request when it arrives; the handler awaits the form (main.ts:327) and  *)
(* runs when the form is there, in any order among the requests waiting.   *)
(***************************************************************************)
MaxInflight == 3

\* Two clients have registered and each has been issued a code
ConcClient(clientId, clientSecret) ==
    [client_id |-> clientId, client_secret |-> clientSecret,
     redirect_uris |-> <<"http://cb">>]

ConcCode(clientId) ==
    [client_id |-> clientId, redirect_uri |-> "http://cb", expires_at |-> CodeLifetime]

InitConc ==
    /\ clients = [c \in {"r32a", "r32b"} |->
                     IF c = "r32a" THEN ConcClient(c, "r48a") ELSE ConcClient(c, "r48b")]
    /\ authorizationCodes = [c \in {"r32a", "r32b"} |-> ConcCode(c)]
    /\ accessTokens = << >>
    /\ now = 0
    /\ last = OAuthResponse("authorize",
                 [client_id |-> "r32b", redirect_uri |-> "http://cb", state |-> "xyz"],
                 302, "none",
                 <<[location |-> "http://cb", code |-> "r32b", state |-> <<"xyz">>]>>)
    /\ stream = NoStream
    /\ redeemed = {}
    /\ issued = 2
    /\ ticks = 0
    /\ inflight = <<>>

\* A request arrives with the client's own secret: its handler starts and
\* waits for the form
TokenArrives(code, clientId) ==
    /\ Len(inflight) < MaxInflight
    /\ inflight' = Append(inflight,
          [req |-> [grant_type |-> "authorization_code", code |-> code,
                    client_id |-> clientId,
                    client_secret |-> clients[clientId].client_secret],
           status |-> 0])
    /\ UNCHANGED <<clients, authorizationCodes, accessTokens, now, last, stream,
                   redeemed, issued, ticks>>

\* The form of a waiting request is there: its handler runs to its response
TokenAnswered(i) ==
    /\ inflight[i].status = 0
    /\ TokenTurn(TRUE, inflight[i].req.grant_type, inflight[i].req.code,
                 inflight[i].req.client_id, inflight[i].req.client_secret)
    /\ inflight' = [inflight EXCEPT ![i].status = last'.status]

NextConc ==
    \/ \E code \in TokenCodes, clientId \in TokenClientIds : TokenArrives(code, clientId)
    \/ \E i \in 1..Len(inflight) : TokenAnswered(i)

SpecConc == InitConc /\ [][NextConc]_vars

(***************************************************************************)
(* Claims about the authorization flow, checked under Spec.                *)
(***************************************************************************)
TokenServed == last.ep = "token" /\ last.req.form

\* C1: an authorization code (what one authorize call stored) mints at most
\* one access token: a code that has minted a token is no longer stored,
\* and a token exchange (grant_type authorization_code) that presents a
\* code already redeemed and not stored again since answers invalid_grant,
\* whatever client_id and client_secret it carries, and mints nothing.
CodeAcceptedAtMostOnce ==
    /\ redeemed \cap DOMAIN authorizationCodes = {}
    /\ (TokenServed /\ last.seen.spent) =>
          /\ last.status # 200
          /\ last.body = <<>>
          /\ (last.req.grant_type = "authorization_code"
                 => last.error = "invalid_grant")

\* A second exchange with the right client and secret is refused
SecondExchangeRefused ==
    /\ TokenServed
    /\ last.seen.spent
    /\ accessTokens # << >>
    /\ last.req.grant_type = "authorization_code"
    /\ last.seen.client # <<>>
    /\ last.seen.client[1].client_secret = last.req.client_secret
    /\ last.error = "invalid_grant"

\* C2: a token exchange with the right grant_type, client_id and
\* client_secret that presents a stored code after its expires_at answers
\* invalid_grant and mints no access token.
ExpiredCodeRejected ==
    (/\ TokenServed
     /\ last.req.grant_type = "authorization_code"
     /\ last.seen.codeData # <<>>
     /\ last.seen.at > last.seen.codeData[1].expires_at
     /\ last.seen.codeData[1].client_id = last.req.client_id
     /\ last.seen.client # <<>>
     /\ last.seen.client[1].client_secret = last.req.client_secret)
    => (last.error = "invalid_grant" /\ last.body = <<>>)

\* C3: every exchange that mints a token supplied the client_id bound to
\* the code and the client_secret stored for that client; an exchange
\* whose client_id is not the one bound to the code answers invalid_grant.
CodeRedeemableOnlyByItsClient ==
    TokenServed =>
       /\ (last.status = 200 \/ last.body # <<>>) =>
             /\ last.seen.codeData # <<>>
             /\ last.seen.codeData[1].client_id = last.req.client_id
             /\ last.seen.client # <<>>
             /\ last.seen.client[1].client_id = last.seen.codeData[1].client_id
             /\ last.seen.client[1].client_secret = last.req.client_secret
       /\ (/\ last.req.grant_type = "authorization_code"
           /\ last.seen.codeData # <<>>
           /\ last.seen.codeData[1].client_id # last.req.client_id)
          => (last.error = "invalid_grant" /\ last.body = <<>>)

\* Another registered client presents its own id and secret with a code
\* issued to a different client
OtherClientRefused ==
    /\ TokenServed
    /\ last.req.grant_type = "authorization_code"
    /\ last.seen.codeData # <<>>
    /\ last.seen.codeData[1].client_id # last.req.client_id
    /\ last.seen.client # <<>>
    /\ last.seen.client[1].client_secret = last.req.client_secret
    /\ last.error = "invalid_grant"
    /\ accessTokens # << >>

\* C4: the token endpoint answers unsupported_grant_type (400) to a
\* grant_type other than authorization_code whatever the other fields;
\* otherwise invalid_grant (400) to an absent or client-mismatched code;
\* otherwise invalid_client (401) to a wrong client_secret.
TokenFailureKinds ==
    TokenServed =>
       IF last.req.grant_type # "authorization_code"
       THEN last.error = "unsupported_grant_type" /\ last.status = 400
       ELSE IF \/ last.seen.codeData = <<>>
               \/ last.seen.codeData[1].client_id # last.req.client_id
       THEN last.error = "invalid_grant" /\ last.status = 400
       ELSE IF \/ last.seen.client = <<>>
               \/ last.seen.client[1].client_secret # last.req.client_secret
       THEN last.error = "invalid_client" /\ last.status = 401
       ELSE last.error = "none" /\ last.status = 200

\* A correct code with a wrong client_secret
WrongSecretIsInvalidClient ==
    /\ TokenServed
    /\ last.req.grant_type = "authorization_code"
    /\ last.seen.codeData # <<>>
    /\ last.seen.codeData[1].client_id = last.req.client_id
    /\ last.seen.client[1].client_secret # last.req.client_secret
    /\ last.error = "invalid_client"
    /\ last.status = 401

\* C5: a request to the protocol endpoint with a Bearer header reaches the
\* transport only if the token is a key of the access-token store whose
\* record is not expired; otherwise it is answered 401 and nothing is
\* dispatched.  A request without the header is admitted.
GateValid(response) ==
    /\ response.seen.tokenData # <<>>
    /\ ~ (response.seen.tokenData[1].expires_at < response.seen.at)

BearerGateAdmitsOnlyValid ==
    last.ep = "mcp" =>
       /\ IsBearer(last.req.authHeader) =>
             /\ (last.reached \/ last.dispatched # <<>> \/ last.status = 200)
                   => GateValid(last)
             /\ ~GateValid(last) =>
                   /\ last.status = 401
                   /\ ~last.reached
                   /\ last.dispatched = <<>>
       /\ last.req.authHeader = NoHeader =>
             /\ last.status # 401
             /\ last.req.method = "POST" => last.reached

\* A bearer request with a stored, unexpired token, admitted and dispatched
BearerAdmitted ==
    /\ last.ep = "mcp"
    /\ IsBearer(last.req.authHeader)
    /\ GateValid(last)
    /\ last.reached
    /\ last.dispatched # <<>>
    /\ last.status = 200

\* C6: a request that presents a token whose record is past its
\* expires_at is answered 401; serving a request of the protocol endpoint
\* leaves the token store as it was; no step removes a token record, and a
\* record that is expired stays expired for as long as it is not
\* overwritten by the minting of the same token string.
ExpiredAt(tokens, t, time) == tokens[t].expires_at < time

LazyExpiryStep ==
    /\ \A t \in DOMAIN accessTokens :
          /\ t \in DOMAIN accessTokens'
          /\ (accessTokens'[t] = accessTokens[t] /\ ExpiredAt(accessTokens, t, now))
                => ExpiredAt(accessTokens', t, now')
          /\ accessTokens'[t] # accessTokens[t] =>
                /\ last'.ep = "token"
                /\ last'.body # <<>>
                /\ last'.body[1].access_token = t
    /\ last'.ep = "mcp" =>
          /\ last' # last => accessTokens' = accessTokens
          /\ (/\ IsBearer(last'.req.authHeader)
              /\ last'.req.authHeader.token \in DOMAIN accessTokens'
              /\ last'.seen.tokenData # <<>>
              /\ last'.seen.tokenData[1].expires_at < last'.seen.at)
             => (last'.status = 401 /\ ~last'.reached)

LazyExpiry == [][LazyExpiryStep]_vars

\* An expired token was refused and its record is still in the store
ExpiredTokenRefusedAndKept ==
    /\ last.ep = "mcp"
    /\ IsBearer(last.req.authHeader)
    /\ last.req.authHeader.token \in DOMAIN accessTokens
    /\ accessTokens[last.req.authHeader.token].expires_at < now
    /\ last.seen.tokenData = <<accessTokens[last.req.authHeader.token]>>
    /\ last.status = 401

(***************************************************************************)
(* Claims about the dispatcher and the transports, checked under SpecMcp.  *)
(***************************************************************************)
HasId(message) == message.type = "object" /\ message.id # NoId
IsNotification(message) == message.type = "object" /\ message.id = NoId

\* The responses in a value handleJsonRpc returned
Answers(value) == IF value = <<>> THEN <<>> ELSE value[1].items

JsonServed == last.ep = "mcp" /\ last.path = "json" /\ last.status = 200

StreamDone == stream.open /\ stream.chunks = <<>>

\* C7: a message without an id never produces a response, whatever its
\* method, in single, batch and streaming form: a document whose messages
\* are all notifications is answered by no response at all.
NotificationNeverAnswered ==
    /\ (JsonServed /\ \A i \in 1..Len(last.dispatched) :
                         IsNotification(last.dispatched[i]))
          => Answers(last.body) = <<>>
    /\ \A k \in 1..Len(stream.lines) :
          (\A i \in 1..Len(stream.lines[k].messages) :
               IsNotification(stream.lines[k].messages[i]))
          => Answers(stream.lines[k].out) = <<>>

\* C8: for an array of messages the result is an array with exactly one
\* response per message that has an id, in the order of the messages, and
\* nothing for a notification.
IdsOf(items) == [i \in 1..Len(items) |-> items[i].id]

BatchOneResponsePerId ==
    (/\ last.ep = "mcp"
     /\ last.path = "json"
     /\ last.body # <<>>
     /\ last.body[1].isArray
     /\ \A i \in 1..Len(last.dispatched) : last.dispatched[i].type = "object")
    => IdsOf(Answers(last.body)) = IdsOf(SelectSeq(last.dispatched, HasId))

\* C9: application/json takes the batched path, application/jsonl and
\* application/x-ndjson take the streaming path, and any other content
\* type is answered 400 without the body being read.
TransportByContentType ==
    (last.ep = "mcp" /\ last.req.method = "POST" /\ last.reached) =>
       /\ last.req.contentType = ApplicationJson => last.path = "json"
       /\ last.req.contentType \in {ApplicationJsonl, ApplicationXNdjson}
             => last.path = "stream"
       /\ last.req.contentType \in {TextPlain, NoContentType}
             => (last.status = 400 /\ ~last.read)

\* C10: in the streaming transport a line that fails to parse, or whose
\* dispatch throws, produces no output line and changes nothing else:
\* when the stream is consumed, the output is the responses to the other
\* non-blank lines of the body, in their order.  A malformed line between
\* two request lines yields exactly the two responses.
BodyLines(req) == Lines(Concat(req.chunks))

Fails(line) == ~ProcessLine(line).parsed \/ ProcessLine(line).threw

LineErrorsIsolated ==
    (/\ StreamDone
     /\ \E k \in 1..Len(BodyLines(last.req)) : Fails(BodyLines(last.req)[k]))
    => /\ stream.out =
             Enqueued(ProcessLines(SelectSeq(BodyLines(last.req),
                                             LAMBDA line : ~Fails(line))))
       /\ \A a, b \in StreamLines :
             (/\ BodyLines(last.req) = <<a, <<Garbage>>, b>>
              /\ ProcessLine(a).out # <<>>
              /\ ProcessLine(b).out # <<>>)
             => stream.out = ProcessLine(a).out \o ProcessLine(b).out

\* C11: the output of the streaming transport does not depend on how the
\* body is cut into chunks: when the stream is consumed, the lines parsed
\* are the non-blank lines of the whole body, each one once, and the output
\* is what the whole body gives when it arrives in one chunk.
ChunkBoundaryIndependent ==
    StreamDone =>
       /\ [k \in 1..Len(stream.lines) |-> stream.lines[k].line] = BodyLines(last.req)
       /\ stream.out = Enqueued(ProcessLines(BodyLines(last.req)))

\* C12: the streaming transport handles the lines of the chunks it has
\* consumed in arrival order, one at a time: the output is the responses
\* in the order of their lines, every response to a line consumed is
\* already in the output while input is still to come, and when a line
\* was dispatched the responses to all lines before it had been enqueued.
RECURSIVE LinesOfChunks(_)
LinesOfChunks(chunks) ==
    IF chunks = <<>> THEN <<>>
    ELSE Lines(Head(chunks)) \o LinesOfChunks(Tail(chunks))

ConsumedChunks ==
    SubSeq(last.req.chunks, 1, Len(last.req.chunks) - Len(stream.chunks))

StreamingInOrder ==
    stream.open =>
       /\ [k \in 1..Len(stream.lines) |-> stream.lines[k].line]
             = LinesOfChunks(ConsumedChunks)
       /\ stream.out = Enqueued(stream.lines)
       /\ \A k \in 1..Len(stream.lines) :
             stream.lines[k].sent = Len(Enqueued(SubSeq(stream.lines, 1, k - 1)))

\* Two responses written in the order of their lines, with input still to come
StreamedBeforeEnd ==
    /\ stream.open
    /\ stream.chunks # <<>>
    /\ \E k \in 1..Len(stream.lines) :
          /\ stream.lines[k].sent >= 1
          /\ stream.lines[k].out # <<>>
          /\ stream.out[stream.lines[k].sent + 1] = stream.lines[k].out[1]

\* C13: a protocol failure is answered with HTTP status 200: a body of
\* content type application/json that does not parse is answered 200 with
\* the top-level error -32700, and a document of messages is answered 200
\* with an error -32601 for an unknown method and -32603 for a handler
\* that failed.
JsonRead == last.ep = "mcp" /\ last.path = "json" /\ last.read

ProtocolErrorsKeepStatus ==
    JsonRead =>
       /\ last.status = 200
       /\ JSONParse(Concat(last.req.chunks)) = <<>> => last.rpcError = -32700
       /\ \A i \in 1..Len(Answers(last.body)) :
             LET response == Answers(last.body)[i]
             IN response.kind = "error" => response.code \in {-32601, -32603}

\* C14: the response to a document of message objects sent as
\* application/json is one JSON document of the shape of the input: one
\* response object for a single message, a notification included, and an
\* array for an array.
ResponseShapeMatchesInput ==
    (/\ JsonServed
     /\ \A i \in 1..Len(last.dispatched) : last.dispatched[i].type = "object")
    => /\ last.body # <<>>
       /\ last.body[1].isArray = JSONParse(Concat(last.req.chunks))[1].isArray
       /\ ~last.body[1].isArray => Len(last.body[1].items) = 1

\* C17: every message with an id that is handed to the dispatcher gets
\* exactly one response, with that id: an error -32601 when the method is
\* unknown, an error -32603 with the failure's message when the handler
\* fails, a result otherwise.  Checked for a JSON document and for every
\* line of a stream.
Methods == {"initialize", "tools/list", "tools/call", "completions/list"}

Outcome(response) == <<response.id, response.kind, response.code>>

Expected(message) ==
    IF message.method \notin Methods
    THEN <<message.id, "error", -32601>>
    ELSE IF message.method = "tools/call" /\ handleToolCall(message.params).threw
    THEN <<message.id, "error", -32603>>
    ELSE <<message.id, "result", 0>>

\* The responses that carry an id, against the messages that carry one
OnePerId(messages, responses) ==
    LET asked == SelectSeq(messages, HasId)
        answered == SelectSeq(responses, LAMBDA r : r.id # NoId)
    IN /\ [i \in 1..Len(answered) |-> Outcome(answered[i])]
             = [i \in 1..Len(asked) |-> Expected(asked[i])]
       /\ \A i \in 1..Len(answered) :
             answered[i].code = -32603
                => answered[i].payload = handleToolCall(asked[i].params).value

OneResponsePerId ==
    /\ JsonRead => OnePerId(last.dispatched, Answers(last.body))
    /\ \A k \in 1..Len(stream.lines) :
          OnePerId(stream.lines[k].messages, Answers(stream.lines[k].out))

(***************************************************************************)
(* The authorization flow with authorize requests whose redirect_uri is    *)
(* missing: searchParams.get gives null, and new URL(null) throws.         *)
(***************************************************************************)
RedirectUrisOrMissing == AuthorizeRedirectUris \cup {Null}

NextRedirect ==
    \/ \E body \in RegisterBodies : Register(body)
    \/ \E clientId \in AuthorizeClientIds, redirectUri \in RedirectUrisOrMissing,
          state \in AuthorizeStates : Authorize(clientId, redirectUri, state)
    \/ \E f \in TokenForms :
          Token(TRUE, f.grant_type, f.code, f.client_id, f.client_secret)

SpecRedirect == Init /\ [][NextRedirect]_vars

(***************************************************************************)
(* Claims about token requests in flight together, checked under SpecConc. *)
(***************************************************************************)
\* The requests that were answered with a token for the code
MintedFrom(code) ==
    {i \in 1..Len(inflight) : inflight[i].req.code = code /\ inflight[i].status = 200}

\* C18: however the token requests that present one code with correct
\* credentials interleave, at most one of them is answered with a token,
\* and the code is gone from the store exactly when one was.
AtMostOneMintPerCode ==
    \A code \in TokenCodes :
       /\ Cardinality(MintedFrom(code)) <= 1
       /\ (MintedFrom(code) = {}) = (code \in DOMAIN authorizationCodes)

\* Two requests with the same code and credentials were waiting together:
\* the one that arrived later ran first and got the token, the earlier
\* one was refused
LaterArrivalWon ==
    \E i, j \in 1..Len(inflight) :
       /\ i < j
       /\ inflight[i].req = inflight[j].req
       /\ inflight[j].status = 200
       /\ inflight[i].status = 400

(***************************************************************************)
(* Claims about the frame of the authorization flow, checked under Spec.   *)
(***************************************************************************)
Stores == <<clients, authorizationCodes, accessTokens>>

\* C15: an authorize request whose client_id is missing or is not a key
\* of the client store is answered 400 with no redirect, and the step
\* leaves the three stores as they were.
UnknownClientRefusedStep ==
    (/\ last' # last
     /\ last'.ep = "authorize"
     /\ \/ last'.req.client_id = Null
        \/ last'.req.client_id \notin DOMAIN clients)
    => /\ last'.status = 400
       /\ last'.body = <<>>
       /\ UNCHANGED Stores

UnknownClientRefused == [][UnknownClientRefusedStep]_vars

\* A client_id that is not registered was refused while a client and a
\* code were stored
UnregisteredClientRefused ==
    /\ last.ep = "authorize"
    /\ last.req.client_id # Null
    /\ last.req.client_id \notin DOMAIN clients
    /\ last.status = 400
    /\ clients # << >>
    /\ authorizationCodes # << >>

\* C16: a registration returns a client_id that no earlier registration
\* returned and that is a key of the client store from then on, and no
\* step deletes a stored client or changes its secret or redirect_uris.
RegistrationUniqueStep ==
    /\ (/\ last' # last
        /\ last'.ep = "register"
        /\ last'.status = 200)
       => /\ last'.body[1].client_id \notin DOMAIN clients
          /\ last'.body[1].client_id \in DOMAIN clients'
    /\ \A c \in DOMAIN clients :
          /\ c \in DOMAIN clients'
          /\ clients'[c] = clients[c]

RegistrationUnique == [][RegistrationUniqueStep]_vars

\* C19: a token exchange that is refused leaves the three stores as they
\* were; a request that presents a stored code with its client_id and a
\* wrong client_secret is refused with invalid_client, and after it the
\* same code with the right secret passes every check.
WrongSecret(req) ==
    /\ req.form
    /\ req.grant_type = "authorization_code"
    /\ req.code \in DOMAIN authorizationCodes
    /\ authorizationCodes[req.code].client_id = req.client_id
    /\ req.client_id \in DOMAIN clients
    /\ clients[req.client_id].client_secret # req.client_secret

\* The code of the last request passes every check with the secret of the
\* client of the last request
Redeemable ==
    TokenError("authorization_code", last.req.code, last.req.client_id,
               clients[last.req.client_id].client_secret) = "none"

FailedExchangeStep ==
    (last' # last /\ last'.ep = "token") =>
       /\ last'.status # 200 => UNCHANGED Stores
       /\ (last'.req.form /\ last'.status # 200) =>
             last'.error \in {"unsupported_grant_type", "invalid_grant", "invalid_client"}
       /\ WrongSecret(last'.req) =>
             /\ last'.error = "invalid_client"
             /\ UNCHANGED Stores
             /\ Redeemable'

FailedExchangeChangesNothing == [][FailedExchangeStep]_vars

\* A stored code was presented with a wrong secret, and is still stored
\* and redeemable with the right one
WrongSecretCodeKept ==
    /\ TokenServed
    /\ last.error = "invalid_client"
    /\ last.seen.codeData # <<>>
    /\ last.seen.client # <<>>
    /\ last.seen.client[1].client_secret # last.req.client_secret
    /\ MapGet(authorizationCodes, last.req.code) = last.seen.codeData
    /\ Redeemable

(***************************************************************************)
(* Claims about what the stores hold, checked under SpecRedirect.          *)
(***************************************************************************)
\* C20: an authorize request that is not answered with a 302 redirect
\* leaves the code store as it was, so a code is stored only by a request
\* that redirected with it; and every stored code and every stored access
\* token carries a client_id that is a key of the client store.
CodeStoredOnlyWithRedirectStep ==
    /\ (/\ last' # last
        /\ last'.ep = "authorize"
        /\ last'.status # 302)
       => authorizationCodes' = authorizationCodes
    /\ \A c \in DOMAIN authorizationCodes' :
          authorizationCodes'[c].client_id \in DOMAIN clients'
    /\ \A t \in DOMAIN accessTokens' :
          accessTokens'[t].client_id \in DOMAIN clients'

CodeStoredOnlyWithRedirect == [][CodeStoredOnlyWithRedirectStep]_vars

====
